---------------------------- MODULE Spec2Model ----------------------------
(***************************************************************************)
(* Model of src/src/App.tsx, the Screen component of the vault dApp.       *)
(*                                                                         *)
(* State: the data of every useReadContract hook the gating logic reads,   *)
(* the two text inputs, the query cache behind the two preview hooks, the  *)
(* position of the two async onClick handlers, the wallet's pending write  *)
(* requests and the transactions waiting to be mined.                      *)
(*                                                                         *)
(* A value of a read hook is <<>> while `data` is undefined and <<v>> once *)
(* it has resolved to v.                                                   *)
(***************************************************************************)
EXTENDS Integers, Sequences, FiniteSets, TLC

VARIABLES
    isConnected,        \* useAccount().isConnected (address is set iff connected)
    onSepolia,          \* chainId === sepolia.id
    assetAddress,       \* data of asset()
    tokenDecimals,      \* data of the asset token's decimals()
    vaultDecimals,      \* data of the vault's decimals()
    paused,             \* data of isPaused()
    availableToDeposit, \* data of availableToDeposit()
    minDep,             \* data of minDepositTx()
    maxDep,             \* data of maxDepositTx()
    minWdr,             \* data of minWithdrawTx()
    maxWdr,             \* data of maxWithdrawTx()
    depInput,           \* useState depInput (sequence of characters)
    redInput,           \* useState redInput
    depPreview,         \* query cache of previewDeposit: [fetching, data], sets of args
    redPreview,         \* query cache of previewRedeem
    allowance,          \* data of allowance(address, VAULT_ADDRESS)
    chainAllowance,     \* the allowance stored in the token contract
    depFlow,            \* the running Deposit onClick handler
    redFlow,            \* the running Redeem onClick handler
    lastWrite,          \* which handler issued the most recent writeContractAsync
    mempool             \* submitted, not yet mined transactions, in nonce order

vars == <<isConnected, onSepolia, assetAddress, tokenDecimals, vaultDecimals,
          paused, availableToDeposit, minDep, maxDep, minWdr, maxWdr,
          depInput, redInput, depPreview, redPreview, allowance,
          chainAllowance, depFlow, redFlow, lastWrite, mempool>>

sessionVars == <<isConnected, onSepolia, assetAddress>>
depPolicyVars == <<availableToDeposit, minDep, maxDep>>
redPolicyVars == <<minWdr, maxWdr>>
flowVars == <<allowance, chainAllowance, depFlow, redFlow, lastWrite, mempool>>

---------------------------------------------------------------------------
(* Bounds of the model *)

\* entries (fetching or resolved) one preview query cache may hold
MaxQueries == 2
\* largest decimal scale the model computes with (TLC integers are 32 bit)
MaxModelDecimals == 6
\* transactions that may wait in the mempool at once
MaxMempool == 1

(* Program constants *)
DefaultAssetDecimals == 6
DefaultVaultDecimals == 18

(* Values the remote reads may resolve to *)
DecimalsValues == {0, 2}
LimitValues == {0, 2}
AllowanceValues == {0, 2}

(* Texts the user types: empty, plain, fractional, negative, non-numeric *)
Texts == { <<>>, <<"1">>, <<"1", ".", "5">>, <<"-", "1">>, <<"a">> }
\* the texts typed while the click handlers are explored
FlowDepTexts == { <<>>, <<"1">>, <<"3">>, <<"-", "1">> }
FlowRedTexts == { <<>>, <<"1">> }

None == <<>>
Some(v) == <<v>>
Loaded(x) == x # <<>>
Val(x) == x[1]

---------------------------------------------------------------------------
(* viem parseUnits, as called at lines 160 and 164 *)

Digits == {"0", "1", "2", "3", "4", "5", "6", "7", "8", "9"}

DigitVal(c) ==
    CASE c = "0" -> 0 [] c = "1" -> 1 [] c = "2" -> 2 [] c = "3" -> 3
      [] c = "4" -> 4 [] c = "5" -> 5 [] c = "6" -> 6 [] c = "7" -> 7
      [] c = "8" -> 8 [] c = "9" -> 9

RECURSIVE Pow10(_)
Pow10(n) == IF n = 0 THEN 1 ELSE 10 * Pow10(n - 1)

\* BigInt of a digit string; BigInt('') is 0n
RECURSIVE DigitsVal(_)
DigitsVal(s) ==
    IF Len(s) = 0 THEN 0
    ELSE 10 * DigitsVal(SubSeq(s, 1, Len(s) - 1)) + DigitVal(s[Len(s)])

AllDigits(s) == \A i \in 1..Len(s) : s[i] \in Digits

DotAt(s) ==
    IF \E i \in 1..Len(s) : s[i] = "."
    THEN CHOOSE i \in 1..Len(s) : s[i] = "." /\ \A j \in 1..(i - 1) : s[j] # "."
    ELSE 0

\* fraction.replace(/(0+)$/, '')
RECURSIVE TrimZeros(_)
TrimZeros(s) ==
    IF Len(s) > 0 /\ s[Len(s)] = "0" THEN TrimZeros(SubSeq(s, 1, Len(s) - 1)) ELSE s

\* the text with a leading '-' removed
Unsigned(s) == IF Len(s) > 0 /\ s[1] = "-" THEN SubSeq(s, 2, Len(s)) ELSE s
IsNegative(s) == Len(s) > 0 /\ s[1] = "-"

IntegerPart(s) ==
    LET u == Unsigned(s) IN IF DotAt(u) = 0 THEN u ELSE SubSeq(u, 1, DotAt(u) - 1)

\* [integer, fraction = '0'] = value.split('.')
FractionPart(s) ==
    LET u == Unsigned(s) IN IF DotAt(u) = 0 THEN <<"0">> ELSE SubSeq(u, DotAt(u) + 1, Len(u))

\* /^(-?)([0-9]*)\.?([0-9]*)$/.test(value)
IsDecimalNumber(s) ==
    LET u == Unsigned(s) IN
    IF DotAt(u) = 0 THEN AllDigits(u)
    ELSE AllDigits(SubSeq(u, 1, DotAt(u) - 1)) /\ AllDigits(SubSeq(u, DotAt(u) + 1, Len(u)))

\* Math.round(Number(`.${digits}`)) === 1
RoundsUp(digits) == Len(digits) > 0 /\ DigitVal(digits[1]) >= 5

\* the magnitude parseUnits builds from integer and fraction; the string
\* surgery of the library (round the digit at position `decimals`, carry
\* into the integer) is the arithmetic below
Magnitude(s, decimals) ==
    LET integer == DigitsVal(IntegerPart(s))
        fraction == TrimZeros(FractionPart(s))
    IN  IF decimals = 0
        THEN integer + (IF RoundsUp(fraction) THEN 1 ELSE 0)
        ELSE IF Len(fraction) > decimals
        THEN integer * Pow10(decimals)
             + DigitsVal(SubSeq(fraction, 1, decimals))
             + (IF RoundsUp(SubSeq(fraction, decimals + 1, Len(fraction))) THEN 1 ELSE 0)
        ELSE integer * Pow10(decimals)
             + DigitsVal(fraction) * Pow10(decimals - Len(fraction))

\* parseUnits throws (InvalidDecimalNumberError, or BigInt('-') SyntaxError)
ParseThrows(s, decimals) ==
    \/ ~IsDecimalNumber(s)
    \/ decimals = 0 /\ IsNegative(s) /\ Len(IntegerPart(s)) = 0
                    /\ ~RoundsUp(TrimZeros(FractionPart(s)))

parseUnits(s, decimals) ==
    IF IsNegative(s) THEN 0 - Magnitude(s, decimals) ELSE Magnitude(s, decimals)

\* try { return parseUnits(input || '0', dec) } catch { return 0n }
ParseAmount(input, decimals) ==
    LET text == IF input = <<>> THEN <<"0">> ELSE input IN
    IF ParseThrows(text, decimals) THEN 0 ELSE parseUnits(text, decimals)

ScaleOf(read, default) ==
    LET d == IF Loaded(read) THEN Val(read) ELSE default IN
    IF d > MaxModelDecimals THEN MaxModelDecimals ELSE d

aDec == ScaleOf(tokenDecimals, DefaultAssetDecimals)
vDec == ScaleOf(vaultDecimals, DefaultVaultDecimals)

depAmount == ParseAmount(depInput, aDec)
redShares == ParseAmount(redInput, vDec)

---------------------------------------------------------------------------
(* Derived render values, lines 110 and 167-193 *)

wrongChain == isConnected /\ ~onSepolia

\* JavaScript truthiness of an optional bigint: undefined and 0n are falsy
Truthy(read) == Loaded(read) /\ Val(read) # 0

\* Boolean(paused)
BooleanOf(read) == Loaded(read) /\ Val(read) = TRUE

\* previewDeposit / previewRedeem of the vault, an opaque remote function;
\* an injective map, so that a result tells which request it answers
VaultPreview(x) == 2 * x

\* the args that have a resolved entry in a query cache
Resolved(cache) == {e.args : e \in cache.data}

\* some resolved entry, whatever args it was fetched for
QueryData_anyEntry(cache, args) ==
    IF cache.data # {} THEN Some((CHOOSE e \in cache.data : TRUE).result) ELSE None

\* data of a preview hook: the cache entry of the query keyed by the current
\* args (args: [depAmount] at line 168, [redShares] at line 173)
QueryData(cache, args) ==
    IF args \in Resolved(cache)
    THEN Some((CHOOSE e \in cache.data : e.args = args).result)
    ELSE None

previewShares == QueryData(depPreview, depAmount)
previewAssets == QueryData(redPreview, redShares)

\* isPending of the useWriteContract mutation: the most recent write is unanswered
isWriting ==
    \/ lastWrite = "deposit" /\ depFlow.pc \in {"AwaitingApproval", "AwaitingDeposit"}
    \/ lastWrite = "redeem" /\ redFlow.pc = "AwaitingRedeem"

belowMinDep == Truthy(minDep) /\ depAmount > 0 /\ depAmount < Val(minDep)
aboveMaxDep == Truthy(maxDep) /\ depAmount > 0 /\ depAmount > Val(maxDep)
overAvailDep == Truthy(availableToDeposit) /\ depAmount > Val(availableToDeposit)

aboveMaxWdr ==
    Truthy(maxWdr) /\ redShares > 0 /\ Loaded(previewAssets) /\ Val(previewAssets) > Val(maxWdr)
belowMinWdr ==
    Truthy(minWdr) /\ redShares > 0 /\ Loaded(previewAssets) /\ Val(previewAssets) < Val(minWdr)

DepositDisabled ==
    \/ ~isConnected
    \/ ~Loaded(assetAddress)
    \/ depAmount = 0
    \/ BooleanOf(paused)
    \/ belowMinDep
    \/ aboveMaxDep
    \/ overAvailDep
    \/ wrongChain
    \/ isWriting

RedeemDisabled ==
    \/ ~isConnected
    \/ redShares = 0
    \/ BooleanOf(paused)
    \/ wrongChain

\* (allowance ?? 0n)
AllowanceOrZero == IF Loaded(allowance) THEN Val(allowance) ELSE 0

---------------------------------------------------------------------------
(* The query cache behind a preview hook *)

EmptyCache == [fetching |-> {}, data |-> {}]

\* rendering with args: an enabled query (args > 0n) without an entry starts
\* fetching; a full cache first drops the entries no hook observes any more
Observe(cache, args) ==
    IF args > 0 /\ args \notin cache.fetching /\ args \notin Resolved(cache)
    THEN LET kept == IF Cardinality(cache.fetching \cup Resolved(cache)) < MaxQueries
                     THEN cache ELSE EmptyCache
         IN  [kept EXCEPT !.fetching = @ \cup {args}]
    ELSE cache

---------------------------------------------------------------------------
(* Initial state: the first render, nothing resolved, for an account that
   has granted the vault no allowance yet *)

IdleDeposit == [pc |-> "Idle", amount |-> 0, allowance |-> 0, approve |-> "none", deposit |-> "none"]
IdleRedeem == [pc |-> "Idle", shares |-> 0, redeem |-> "none"]

Init ==
    /\ isConnected = FALSE
    /\ onSepolia = TRUE
    /\ assetAddress = None
    /\ tokenDecimals = None
    /\ vaultDecimals = None
    /\ paused = None
    /\ availableToDeposit = None
    /\ minDep = None
    /\ maxDep = None
    /\ minWdr = None
    /\ maxWdr = None
    /\ depInput = <<>>
    /\ redInput = <<>>
    /\ depPreview = EmptyCache
    /\ redPreview = EmptyCache
    /\ allowance = None
    /\ chainAllowance = 0
    /\ depFlow = IdleDeposit
    /\ redFlow = IdleRedeem
    /\ lastWrite = "none"
    /\ mempool = <<>>

\* a connected session on the right network with the asset address and both
\* decimals resolved, for an account with any earlier allowance
InitFlow ==
    /\ isConnected = TRUE
    /\ onSepolia = TRUE
    /\ assetAddress = Some("asset")
    /\ tokenDecimals = Some(0)
    /\ vaultDecimals = Some(0)
    /\ paused \in {None, Some(FALSE)}
    /\ availableToDeposit = None
    /\ minDep = None
    /\ maxDep = None
    /\ minWdr = None
    /\ maxWdr = None
    /\ depInput = <<>>
    /\ redInput = <<>>
    /\ depPreview = EmptyCache
    /\ redPreview = EmptyCache
    /\ allowance = None
    /\ chainAllowance \in AllowanceValues
    /\ depFlow = IdleDeposit
    /\ redFlow = IdleRedeem
    /\ lastWrite = "none"
    /\ mempool = <<>>

---------------------------------------------------------------------------
(* Session and remote reads resolving *)

Connect ==
    /\ ~isConnected
    /\ isConnected' = TRUE
    /\ onSepolia' \in BOOLEAN
    /\ UNCHANGED <<assetAddress, tokenDecimals, vaultDecimals, paused, depPolicyVars,
                   redPolicyVars, depInput, redInput, depPreview, redPreview, flowVars>>

\* the allowance query is keyed by the address: without one its data is undefined
Disconnect ==
    /\ isConnected
    /\ isConnected' = FALSE
    /\ allowance' = None
    /\ UNCHANGED <<onSepolia, assetAddress, tokenDecimals, vaultDecimals, paused,
                   depPolicyVars, redPolicyVars, depInput, redInput, depPreview,
                   redPreview, chainAllowance, depFlow, redFlow, lastWrite, mempool>>

SwitchChain ==
    /\ isConnected
    /\ onSepolia' = ~onSepolia
    /\ UNCHANGED <<isConnected, assetAddress, tokenDecimals, vaultDecimals, paused,
                   depPolicyVars, redPolicyVars, depInput, redInput, depPreview,
                   redPreview, flowVars>>

AssetAddressResolved ==
    /\ assetAddress = None
    /\ assetAddress' = Some("asset")
    /\ UNCHANGED <<isConnected, onSepolia, tokenDecimals, vaultDecimals, paused,
                   depPolicyVars, redPolicyVars, depInput, redInput, depPreview,
                   redPreview, flowVars>>

PausedResolved ==
    /\ \E v \in BOOLEAN : paused' = Some(v)
    /\ UNCHANGED <<sessionVars, tokenDecimals, vaultDecimals, depPolicyVars,
                   redPolicyVars, depInput, redInput, depPreview, redPreview, flowVars>>

AvailableToDepositResolved ==
    /\ \E v \in LimitValues : availableToDeposit' = Some(v)
    /\ UNCHANGED <<sessionVars, tokenDecimals, vaultDecimals, paused, minDep, maxDep,
                   redPolicyVars, depInput, redInput, depPreview, redPreview, flowVars>>

MinDepResolved ==
    /\ \E v \in LimitValues : minDep' = Some(v)
    /\ UNCHANGED <<sessionVars, tokenDecimals, vaultDecimals, paused, availableToDeposit,
                   maxDep, redPolicyVars, depInput, redInput, depPreview, redPreview, flowVars>>

MaxDepResolved ==
    /\ \E v \in LimitValues : maxDep' = Some(v)
    /\ UNCHANGED <<sessionVars, tokenDecimals, vaultDecimals, paused, availableToDeposit,
                   minDep, redPolicyVars, depInput, redInput, depPreview, redPreview, flowVars>>

MinWdrResolved ==
    /\ \E v \in LimitValues : minWdr' = Some(v)
    /\ UNCHANGED <<sessionVars, tokenDecimals, vaultDecimals, paused, depPolicyVars,
                   maxWdr, depInput, redInput, depPreview, redPreview, flowVars>>

MaxWdrResolved ==
    /\ \E v \in LimitValues : maxWdr' = Some(v)
    /\ UNCHANGED <<sessionVars, tokenDecimals, vaultDecimals, paused, depPolicyVars,
                   minWdr, depInput, redInput, depPreview, redPreview, flowVars>>

\* the token's decimals() is enabled once the asset address is known; the
\* new scale re-parses the input and re-keys the preview
TokenDecimalsResolved ==
    /\ Loaded(assetAddress)
    /\ tokenDecimals = None
    /\ \E d \in DecimalsValues :
         /\ tokenDecimals' = Some(d)
         /\ depPreview' = Observe(depPreview, ParseAmount(depInput, d))
    /\ UNCHANGED <<sessionVars, vaultDecimals, paused, depPolicyVars, redPolicyVars,
                   depInput, redInput, redPreview, flowVars>>

VaultDecimalsResolved ==
    /\ vaultDecimals = None
    /\ \E d \in DecimalsValues :
         /\ vaultDecimals' = Some(d)
         /\ redPreview' = Observe(redPreview, ParseAmount(redInput, d))
    /\ UNCHANGED <<sessionVars, tokenDecimals, paused, depPolicyVars, redPolicyVars,
                   depInput, redInput, depPreview, flowVars>>

---------------------------------------------------------------------------
(* Inputs and previews *)

\* onChange of the deposit input, and the render that follows
SetDepInputFrom(texts) ==
    /\ \E t \in texts :
         /\ depInput' = t
         /\ depPreview' = Observe(depPreview, ParseAmount(t, aDec))
    /\ UNCHANGED <<sessionVars, tokenDecimals, vaultDecimals, paused, depPolicyVars,
                   redPolicyVars, redInput, redPreview, flowVars>>

SetRedInputFrom(texts) ==
    /\ \E t \in texts :
         /\ redInput' = t
         /\ redPreview' = Observe(redPreview, ParseAmount(t, vDec))
    /\ UNCHANGED <<sessionVars, tokenDecimals, vaultDecimals, paused, depPolicyVars,
                   redPolicyVars, depInput, depPreview, flowVars>>

SetDepInput == SetDepInputFrom(Texts)
SetRedInput == SetRedInputFrom(Texts)
FlowSetDepInput == SetDepInputFrom(FlowDepTexts)
FlowSetRedInput == SetRedInputFrom(FlowRedTexts)

\* a response to the request made with args k arrives: the cache stores the
\* result under the key of that request
Respond(cache, k) ==
    [fetching |-> cache.fetching \ {k},
     data |-> cache.data \cup {[args |-> k, result |-> VaultPreview(k)]}]

\* the cache drops the query with args k
Collect(cache, k) ==
    [fetching |-> cache.fetching \ {k}, data |-> {e \in cache.data : e.args # k}]

PreviewDepositResolved ==
    /\ \E k \in depPreview.fetching : depPreview' = Respond(depPreview, k)
    /\ UNCHANGED <<sessionVars, tokenDecimals, vaultDecimals, paused, depPolicyVars,
                   redPolicyVars, depInput, redInput, redPreview, flowVars>>

PreviewRedeemResolved ==
    /\ \E k \in redPreview.fetching : redPreview' = Respond(redPreview, k)
    /\ UNCHANGED <<sessionVars, tokenDecimals, vaultDecimals, paused, depPolicyVars,
                   redPolicyVars, depInput, redInput, depPreview, flowVars>>

\* the cache drops a query no hook observes any more
PreviewDepositCollected ==
    /\ \E k \in (depPreview.fetching \cup Resolved(depPreview)) \ {depAmount} :
         depPreview' = Collect(depPreview, k)
    /\ UNCHANGED <<sessionVars, tokenDecimals, vaultDecimals, paused, depPolicyVars,
                   redPolicyVars, depInput, redInput, redPreview, flowVars>>

PreviewRedeemCollected ==
    /\ \E k \in (redPreview.fetching \cup Resolved(redPreview)) \ {redShares} :
         redPreview' = Collect(redPreview, k)
    /\ UNCHANGED <<sessionVars, tokenDecimals, vaultDecimals, paused, depPolicyVars,
                   redPolicyVars, depInput, redInput, depPreview, flowVars>>

---------------------------------------------------------------------------
(* The allowance read and the chain *)

\* the allowance query (enabled with asset address and account) returns the
\* chain's value at the time it is fetched
AllowanceResolved ==
    /\ isConnected
    /\ Loaded(assetAddress)
    /\ allowance' = Some(chainAllowance)
    /\ UNCHANGED <<sessionVars, tokenDecimals, vaultDecimals, paused, depPolicyVars,
                   redPolicyVars, depInput, redInput, depPreview, redPreview,
                   chainAllowance, depFlow, redFlow, lastWrite, mempool>>

\* the network mines the oldest submitted transaction: approve sets the
\* allowance, deposit spends it or reverts, redeem leaves it alone
AllowanceAfter(tx, current) ==
    CASE tx.kind = "approve" -> tx.amount
      [] tx.kind = "deposit" -> IF current >= tx.amount THEN current - tx.amount ELSE current
      [] tx.kind = "redeem" -> current

Mine ==
    /\ Len(mempool) > 0
    /\ chainAllowance' = AllowanceAfter(Head(mempool), chainAllowance)
    /\ mempool' = Tail(mempool)
    /\ UNCHANGED <<sessionVars, tokenDecimals, vaultDecimals, paused, depPolicyVars,
                   redPolicyVars, depInput, redInput, depPreview, redPreview,
                   allowance, depFlow, redFlow, lastWrite>>

---------------------------------------------------------------------------
(* Deposit onClick, lines 283-310; one action per stretch between awaits *)

\* the comparison of line 288 with the boundary on the wrong side
NeedsApproval_atMost(currentAllowance, amount) == currentAllowance <= amount

\* line 288: if ((allowance ?? 0n) < depAmount)
NeedsApproval(currentAllowance, amount) == currentAllowance < amount

\* the click up to the first await: the approve write when the allowance is
\* short, the deposit write otherwise
DepositClick ==
    /\ ~DepositDisabled
    /\ depFlow.pc \notin {"AwaitingApproval", "AwaitingDeposit"}
    /\ isConnected /\ Loaded(assetAddress)
    /\ depFlow' = IF NeedsApproval(AllowanceOrZero, depAmount)
                  THEN [pc |-> "AwaitingApproval", amount |-> depAmount,
                        allowance |-> AllowanceOrZero, approve |-> "pending", deposit |-> "none"]
                  ELSE [pc |-> "AwaitingDeposit", amount |-> depAmount,
                        allowance |-> AllowanceOrZero, approve |-> "none", deposit |-> "pending"]
    /\ lastWrite' = "deposit"
    /\ UNCHANGED <<sessionVars, tokenDecimals, vaultDecimals, paused, depPolicyVars,
                   redPolicyVars, depInput, redInput, depPreview, redPreview,
                   allowance, chainAllowance, redFlow, mempool>>

\* the write an approve answer is followed by (lines 295-304)
AfterApprove(flow) == [flow EXCEPT !.pc = "AwaitingDeposit", !.approve = "submitted",
                                   !.deposit = "pending"]

\* writeContractAsync(approve) resolves with the transaction hash: the
\* transaction is submitted, the handler logs it and issues the deposit write
ApproveSubmitted ==
    /\ depFlow.pc = "AwaitingApproval"
    /\ Len(mempool) < MaxMempool
    /\ mempool' = Append(mempool, [kind |-> "approve", amount |-> depFlow.amount])
    /\ depFlow' = AfterApprove(depFlow)
    /\ lastWrite' = "deposit"
    /\ UNCHANGED <<sessionVars, tokenDecimals, vaultDecimals, paused, depPolicyVars,
                   redPolicyVars, depInput, redInput, depPreview, redPreview,
                   allowance, chainAllowance, redFlow>>

\* writeContractAsync(approve) rejects: the catch block logs and the handler ends
ApproveRejected ==
    /\ depFlow.pc = "AwaitingApproval"
    /\ depFlow' = [depFlow EXCEPT !.pc = "Failed", !.approve = "rejected"]
    /\ UNCHANGED <<sessionVars, tokenDecimals, vaultDecimals, paused, depPolicyVars,
                   redPolicyVars, depInput, redInput, depPreview, redPreview,
                   allowance, chainAllowance, redFlow, lastWrite, mempool>>

\* writeContractAsync(deposit) resolves: logged, then setDepInput('')
\* (a negative amount cannot be encoded as uint256, so it never resolves)
DepositSubmitted ==
    /\ depFlow.pc = "AwaitingDeposit"
    /\ depFlow.amount >= 0
    /\ Len(mempool) < MaxMempool
    /\ mempool' = Append(mempool, [kind |-> "deposit", amount |-> depFlow.amount])
    /\ depFlow' = [depFlow EXCEPT !.pc = "Settled", !.deposit = "submitted"]
    /\ depInput' = <<>>
    /\ UNCHANGED <<sessionVars, tokenDecimals, vaultDecimals, paused, depPolicyVars,
                   redPolicyVars, redInput, depPreview, redPreview,
                   allowance, chainAllowance, redFlow, lastWrite>>

DepositRejected ==
    /\ depFlow.pc = "AwaitingDeposit"
    /\ depFlow' = [depFlow EXCEPT !.pc = "Failed", !.deposit = "rejected"]
    /\ UNCHANGED <<sessionVars, tokenDecimals, vaultDecimals, paused, depPolicyVars,
                   redPolicyVars, depInput, redInput, depPreview, redPreview,
                   allowance, chainAllowance, redFlow, lastWrite, mempool>>

---------------------------------------------------------------------------
(* Redeem onClick, lines 339-349 *)

RedeemClick ==
    /\ ~RedeemDisabled
    /\ redFlow.pc # "AwaitingRedeem"
    /\ isConnected
    /\ redFlow' = [pc |-> "AwaitingRedeem", shares |-> redShares, redeem |-> "pending"]
    /\ lastWrite' = "redeem"
    /\ UNCHANGED <<sessionVars, tokenDecimals, vaultDecimals, paused, depPolicyVars,
                   redPolicyVars, depInput, redInput, depPreview, redPreview,
                   allowance, chainAllowance, depFlow, mempool>>

RedeemSubmitted ==
    /\ redFlow.pc = "AwaitingRedeem"
    /\ redFlow.shares >= 0
    /\ Len(mempool) < MaxMempool
    /\ mempool' = Append(mempool, [kind |-> "redeem", amount |-> redFlow.shares])
    /\ redFlow' = [redFlow EXCEPT !.pc = "Settled", !.redeem = "submitted"]
    /\ redInput' = <<>>
    /\ UNCHANGED <<sessionVars, tokenDecimals, vaultDecimals, paused, depPolicyVars,
                   redPolicyVars, depInput, depPreview, redPreview,
                   allowance, chainAllowance, depFlow, lastWrite>>

\* where a rejected redeem write leaves the handler: there is no try/catch,
\* the rejection leaves onClick as an unhandled promise rejection
RedeemFailureState == "Unhandled"

RedeemRejected ==
    /\ redFlow.pc = "AwaitingRedeem"
    /\ redFlow' = [redFlow EXCEPT !.pc = RedeemFailureState, !.redeem = "rejected"]
    /\ UNCHANGED <<sessionVars, tokenDecimals, vaultDecimals, paused, depPolicyVars,
                   redPolicyVars, depInput, redInput, depPreview, redPreview,
                   allowance, chainAllowance, depFlow, lastWrite, mempool>>

---------------------------------------------------------------------------
(* Specifications *)

\* the deposit card: session, policy reads, input and preview
NextDeposit ==
    \/ Connect
    \/ Disconnect
    \/ SwitchChain
    \/ AssetAddressResolved
    \/ PausedResolved
    \/ AvailableToDepositResolved
    \/ MinDepResolved
    \/ MaxDepResolved
    \/ TokenDecimalsResolved
    \/ SetDepInput
    \/ PreviewDepositResolved
    \/ PreviewDepositCollected

\* the redeem card
NextRedeem ==
    \/ Connect
    \/ Disconnect
    \/ SwitchChain
    \/ PausedResolved
    \/ MinWdrResolved
    \/ MaxWdrResolved
    \/ VaultDecimalsResolved
    \/ SetRedInput
    \/ PreviewRedeemResolved
    \/ PreviewRedeemCollected

\* the two click handlers, the wallet, the chain and the allowance read
NextFlow ==
    \/ FlowSetDepInput
    \/ FlowSetRedInput
    \/ AllowanceResolved
    \/ Mine
    \/ DepositClick
    \/ ApproveSubmitted
    \/ ApproveRejected
    \/ DepositSubmitted
    \/ DepositRejected
    \/ RedeemClick
    \/ RedeemSubmitted
    \/ RedeemRejected

\* the two inputs and their previews
NextPreview ==
    \/ AssetAddressResolved
    \/ TokenDecimalsResolved
    \/ VaultDecimalsResolved
    \/ SetDepInput
    \/ SetRedInput
    \/ PreviewDepositResolved
    \/ PreviewRedeemResolved
    \/ PreviewDepositCollected
    \/ PreviewRedeemCollected

Next == NextDeposit \/ NextRedeem \/ NextFlow \/ SetDepInput \/ SetRedInput

Spec == Init /\ [][Next]_vars
SpecDeposit == Init /\ [][NextDeposit]_vars
SpecRedeem == Init /\ [][NextRedeem]_vars
SpecPreview == Init /\ [][NextPreview]_vars
SpecFlow == InitFlow /\ [][NextFlow]_vars

---------------------------------------------------------------------------
(* Vocabulary of the properties *)

\* the Deposit handler has just passed the click (a new run started)
DepositStarted ==
    /\ depFlow.pc \notin {"AwaitingApproval", "AwaitingDeposit"}
    /\ depFlow'.pc \in {"AwaitingApproval", "AwaitingDeposit"}

\* the deposit write has just been issued
DepositWriteIssued == depFlow.deposit # "pending" /\ depFlow'.deposit = "pending"

\* the approve transaction of the running flow is submitted but not mined
ApprovalUnconfirmed(pool) ==
    \E i \in 1..Len(pool) : pool[i].kind = "approve" /\ pool[i].amount = depFlow.amount

\* the violations of section 4.3, over resolved limits
VaultPaused == Loaded(paused) /\ Val(paused) = TRUE
DepBelowMinimum == Loaded(minDep) /\ depAmount > 0 /\ depAmount < Val(minDep)
DepAboveMaximum == Loaded(maxDep) /\ depAmount > 0 /\ depAmount > Val(maxDep)
DepExceedsAvailableCapacity ==
    Loaded(availableToDeposit) /\ depAmount > Val(availableToDeposit)
WdrBelowMinimum ==
    /\ Loaded(previewAssets) /\ Loaded(minWdr)
    /\ redShares > 0 /\ Val(previewAssets) < Val(minWdr)
WdrAboveMaximum ==
    /\ Loaded(previewAssets) /\ Loaded(maxWdr)
    /\ redShares > 0 /\ Val(previewAssets) > Val(maxWdr)

\* the text is empty, not a decimal number, or carries a minus sign
Malformed(text) == text = <<>> \/ ~IsDecimalNumber(text) \/ IsNegative(text)

---------------------------------------------------------------------------
(* Properties *)

\* C1: when an approval was needed, the deposit write is issued only once the
\* approve transaction has been mined; a returned transaction hash is not enough.
C1_DepositWaitsForApprovalConfirmation ==
    [][(DepositWriteIssued /\ depFlow'.approve = "submitted")
         => ~ApprovalUnconfirmed(mempool)']_vars

\* C2: a deposit click issues the approve write first exactly when the
\* allowance (0 while not loaded) is below the requested amount, and goes
\* straight to the deposit write otherwise; the deposit write of a flow that
\* approved follows the answer to the approve write.
C2_ApproveIffAllowanceShort ==
    [][/\ DepositStarted =>
            LET w == IF Loaded(allowance) THEN Val(allowance) ELSE 0
                a == depAmount
            IN  /\ (w < a) <=> (depFlow'.pc = "AwaitingApproval")
                /\ (w < a) => depFlow'.approve = "pending" /\ depFlow'.deposit = "none"
                /\ (w >= a) => depFlow'.approve = "none" /\ depFlow'.deposit = "pending"
       /\ DepositWriteIssued =>
            (depFlow'.approve = "submitted") <=> (depFlow'.allowance < depFlow'.amount)
      ]_vars

\* C2 witness: the allowance had not loaded, the approve write was issued and
\* answered, and the deposit write followed
C2_Witness ==
    /\ allowance = None
    /\ depFlow.pc = "AwaitingDeposit"
    /\ depFlow.approve = "submitted"
    /\ depFlow.allowance = 0

\* C3: a failed write at the approve step, the deposit step or the redeem
\* call leaves its flow in Failed (caught), with no later write of the flow.
C3_WriteFailureMovesToFailed ==
    /\ depFlow.approve = "rejected" => depFlow.pc = "Failed" /\ depFlow.deposit = "none"
    /\ depFlow.deposit = "rejected" => depFlow.pc = "Failed"
    /\ redFlow.redeem = "rejected" => redFlow.pc = "Failed"

\* C4: while a core policy field of an action is unresolved, the action's
\* button is disabled.
C4_UnresolvedPolicyDisables ==
    /\ (~Loaded(paused) \/ ~Loaded(minDep) \/ ~Loaded(maxDep) \/ ~Loaded(availableToDeposit))
         => DepositDisabled
    /\ (~Loaded(paused) \/ ~Loaded(minWdr) \/ ~Loaded(maxWdr)) => RedeemDisabled

\* C5: a button is enabled only when its validation has no violation.
C5_ViolationDisables ==
    /\ (VaultPaused \/ DepBelowMinimum \/ DepAboveMaximum \/ DepExceedsAvailableCapacity)
         => DepositDisabled
    /\ (VaultPaused \/ WdrBelowMinimum \/ WdrAboveMaximum) => RedeemDisabled

\* C6: with the limits loaded (0 included) the deposit validation reports
\* exactly the violations whose predicate holds.
C6_DepositViolationsExact ==
    (Loaded(minDep) /\ Loaded(maxDep) /\ Loaded(availableToDeposit)) =>
        /\ belowMinDep <=> DepBelowMinimum
        /\ aboveMaxDep <=> DepAboveMaximum
        /\ overAvailDep <=> DepExceedsAvailableCapacity

\* C7: while the preview of the entered share amount has not resolved, the
\* Redeem button is disabled.
C7_NoPreviewDisablesRedeem ==
    (redShares > 0 /\ ~Loaded(previewAssets)) => RedeemDisabled

\* C8: the preview a card shows is the not-loaded placeholder or the result
\* for the amount currently parsed from its input, never the result of a
\* request made for an earlier amount.
C8_PreviewBelongsToInput ==
    /\ previewShares \in {None, Some(VaultPreview(depAmount))}
    /\ previewAssets \in {None, Some(VaultPreview(redShares))}

\* C8 witness: the response for an earlier amount has arrived while the input
\* holds another amount whose preview is still loading
C8_Witness ==
    /\ depAmount > 0
    /\ depAmount \in depPreview.fetching
    /\ \E e \in depPreview.data : e.args # depAmount
    /\ previewShares = None

\* C9: the parsed amount is never negative, is 0 for empty, non-numeric and
\* negative text, and such text never leaves a button enabled.
C9_ParsedAmountNonNegative ==
    /\ depAmount >= 0 /\ redShares >= 0
    /\ Malformed(depInput) => depAmount = 0 /\ DepositDisabled
    /\ Malformed(redInput) => redShares = 0 /\ RedeemDisabled

\* C10: re-clicking Deposit with the same amount after the approve of a
\* failed flow was mined issues no second approve, only the deposit write.
C10_ResumeSkipsApprove ==
    [][(/\ DepositStarted
        /\ depFlow.pc = "Failed"
        /\ depFlow.approve = "submitted"
        /\ depAmount = depFlow.amount
        /\ ~ApprovalUnconfirmed(mempool)
        /\ chainAllowance >= depAmount)
         => depFlow'.approve = "none" /\ depFlow'.deposit = "pending"]_vars

\* the Redeem handler has just passed the click
RedeemStarted == redFlow.pc # "AwaitingRedeem" /\ redFlow'.pc = "AwaitingRedeem"

\* the write requests of this screen the wallet has not answered yet
PendingWrites ==
    (IF depFlow.pc \in {"AwaitingApproval", "AwaitingDeposit"} THEN 1 ELSE 0)
    + (IF redFlow.pc = "AwaitingRedeem" THEN 1 ELSE 0)

\* C11: while a write is pending (isWriting) no click starts another approve,
\* deposit or redeem write, so at most one write of this screen is pending.
C11_OnePendingWrite ==
    [][(DepositStarted \/ RedeemStarted) => (~isWriting /\ PendingWrites' <= 1)]_vars

=============================================================================
